---- MODULE Spec2Model ----
(***************************************************************************)
(* Model of rattler's feed iterator (TwitterSession.FeedIter, iter.go):    *)
(* Stage A (the download goroutine), Stage B (the parse/dedup goroutine)   *)
(* and the consumer of the returned channel, together with the cursor     *)
(* (cursor.go) and the page reader (FeedPage) they drive.                  *)
(***************************************************************************)
EXTENDS Naturals, Sequences, FiniteSets, TLC

\* ---------------------------------------------------------------- bounds
MaxId == 2          \* tweet ids served by the remote feed are 1..MaxId
MaxPageLen == 2     \* item containers per page payload
MaxFetch == 3       \* RetrievePage calls per stream
MaxNodes == 2       \* nodes of one kind inside an item container
MaxCalls == 2       \* FeedIter invocations on one session
MaxSessionFetch == 2  \* RetrievePage calls of one session with several invocations

\* ------------------------------------------------------ program constants
TweetChanCap == 5
PageChanCap == 1

\* ------------------------------------------------------------ value space
NoError == "nil"
NilTweet == 0
NoAttr == "<no attribute>"

Ids == 1..MaxId

\* decimal text of a tweet id, as it stands in a data-item-id attribute
IdText == [i \in Ids |-> ToString(i)]

IdTexts == {IdText[i] : i \in Ids}

\* strconv.ParseUint on an attribute value: the id, or 0 with ok = FALSE
ParseUint(val) ==
    IF \E i \in Ids : IdText[i] = val
    THEN [ok |-> TRUE, value |-> CHOOSE i \in Ids : IdText[i] = val]
    ELSE [ok |-> FALSE, value |-> 0]

\* ------------------------------------------------------------ page payload
\* A JSON member is absent, null, a string, or a value of another type.
JAbsent == [kind |-> "absent", items |-> <<>>, str |-> ""]
JNull == [kind |-> "null", items |-> <<>>, str |-> ""]
JOther == [kind |-> "other", items |-> <<>>, str |-> ""]
JString(s) == [kind |-> "string", items |-> <<>>, str |-> s]
\* items_html as a string: the markup, read as its li[data-item-type=tweet]
\* containers in document order
JHtml(containers) == [kind |-> "string", items |-> containers, str |-> ""]

RECURSIVE SeqsUpTo(_, _)
SeqsUpTo(S, n) ==
    IF n = 0 THEN {<<>>}
    ELSE LET shorter == SeqsUpTo(S, n - 1)
         IN shorter \cup {Append(s, x) : s \in {t \in shorter : Len(t) = n - 1}, x \in S}

\* values of a data-time attribute: decimal seconds, or not a number
TimeTexts == {"100", "x"}

\* strconv.ParseInt on a data-time value
ParseInt(val) ==
    IF val = "100" THEN [ok |-> TRUE, value |-> 100] ELSE [ok |-> FALSE, value |-> 0]

\* values of data-image-url, data-card-url and of a quote link's href
ImageUrls == {"a.jpg", "b.jpg"}
CardUrls == {"card"}
Hrefs == {"/q", NoAttr}

\* One item container (li[data-item-type=tweet]) is read through what the
\* selectors of extractTweet find in it:
\*   item_id  its data-item-id attribute (NoAttr when it has none)
\*   time     the data-time values of its *[data-time] nodes, document order
\*   text     the number of its p.tweet-text nodes
\*   image    the data-image-url values of its div[data-image-url] nodes
\*   card     the data-card-url values of its *[data-card-url] nodes
\*   quote    the href values of its div.QuoteTweet-link nodes
\*   video    the number of its div.PlayableMedia-player nodes
\* The containers the remote feed serves to the iterator: well formed but
\* for the id attribute
Containers ==
    [item_id : IdTexts \cup {NoAttr}, time : {<<"100">>}, text : {1}, image : {<<>>},
     card : {<<>>}, quote : {<<>>}, video : {0}]

\* containers that differ in id and text nodes, for pages of several items
IdContainers ==
    [item_id : IdTexts \cup {NoAttr, "x"}, time : {<<"100">>}, text : 0..MaxNodes,
     image : {<<>>}, card : {<<>>}, quote : {<<>>}, video : {0}]

\* containers that differ in their timestamp and text nodes
DatedContainers ==
    [item_id : {IdText[1]}, time : SeqsUpTo(TimeTexts, MaxNodes), text : 0..MaxNodes,
     image : {<<>>}, card : {<<>>}, quote : {<<>>}, video : {0}]

\* containers that differ in their embedded content
MediaContainers ==
    [item_id : {IdText[1]}, time : {<<"100">>}, text : {1},
     image : SeqsUpTo(ImageUrls, MaxNodes), card : SeqsUpTo(CardUrls, MaxNodes),
     quote : SeqsUpTo(Hrefs, MaxNodes), video : 0..1]

\* the markup of items_html handed to the page reader on its own
Fragments ==
    SeqsUpTo(IdContainers, MaxPageLen)
        \cup {<<c>> : c \in DatedContainers \cup MediaContainers}

\* the payloads handed to the page reader on its own
ReaderPayloads ==
    [items_html : {JAbsent, JOther} \cup {JHtml(c) : c \in Fragments},
     min_position : {JAbsent, JNull, JOther} \cup {JString(s) : s \in {"", IdText[1]}}]

Payloads ==
    [items_html : {JAbsent, JOther} \cup {JHtml(c) : c \in SeqsUpTo(Containers, MaxPageLen)},
     min_position : {JAbsent, JNull, JOther} \cup {JString(s) : s \in IdTexts}]

\* FeedPage.lookupString
lookupString(json, name) ==
    LET member == json[name]
    IN IF member.kind = "string" THEN [value |-> member, err |-> NoError]
       ELSE IF member.kind = "absent"
            THEN [value |-> JString(""), err |-> "KeyDoesNotExist"]
            ELSE [value |-> JString(""), err |-> "CantConvertToString"]

\* Tweet.Extra: nil, or one of the embedded-content variants with its URLs
NoExtra == [variant |-> "nil", urls |-> <<>>]
Gallery(urls) == [variant |-> "Gallery", urls |-> urls]
Card(url) == [variant |-> "Card", urls |-> <<url>>]
\* the quote URL is "https://twitter.com" + href
Quote(href) == [variant |-> "Quote", urls |-> <<"https://twitter.com", href>>]

\* FeedPage.extractEmbeddedTweetImages
extractEmbeddedTweetImages(sel) ==
    IF Len(sel.image) > 0 THEN [extra |-> Gallery(sel.image), err |-> NoError]
    ELSE [extra |-> NoExtra, err |-> NoError]

\* FeedPage.extractEmbeddedTweetCard
extractEmbeddedTweetCard(sel) ==
    IF Len(sel.card) > 0
    THEN IF Len(sel.card) = 1 THEN [extra |-> Card(sel.card[1]), err |-> NoError]
         ELSE [extra |-> NoExtra, err |-> "APICompatError"]
    ELSE [extra |-> NoExtra, err |-> NoError]

\* FeedPage.extractEmbeddedTweetQuote
extractEmbeddedTweetQuote(sel) ==
    IF Len(sel.quote) = 0 THEN [extra |-> NoExtra, err |-> NoError]
    ELSE IF Len(sel.quote) = 1
    THEN IF sel.quote[1] # NoAttr THEN [extra |-> Quote(sel.quote[1]), err |-> NoError]
         ELSE [extra |-> NoExtra, err |-> "APICompatError"]
    ELSE [extra |-> NoExtra, err |-> "APICompatError"]

\* FeedPage.extractEmbeddedTweetVideo: not implemented, always (nil, nil)
extractEmbeddedTweetVideo(sel) == [extra |-> NoExtra, err |-> NoError]

\* the card check made before the image check
extractTweetExtra_CardFirst(sel) ==
    LET imageExtra == extractEmbeddedTweetImages(sel)
        cardExtra == extractEmbeddedTweetCard(sel)
        quoteExtra == extractEmbeddedTweetQuote(sel)
        videoExtra == extractEmbeddedTweetVideo(sel)
    IN IF cardExtra.extra # NoExtra \/ cardExtra.err # NoError THEN cardExtra
       ELSE IF imageExtra.extra # NoExtra \/ imageExtra.err # NoError THEN imageExtra
       ELSE IF quoteExtra.extra # NoExtra \/ quoteExtra.err # NoError THEN quoteExtra
       ELSE videoExtra

\* FeedPage.extractTweetExtra: the first check that finds something, or fails
extractTweetExtra(sel) ==
    LET imageExtra == extractEmbeddedTweetImages(sel)
        cardExtra == extractEmbeddedTweetCard(sel)
        quoteExtra == extractEmbeddedTweetQuote(sel)
        videoExtra == extractEmbeddedTweetVideo(sel)
    IN IF imageExtra.extra # NoExtra \/ imageExtra.err # NoError THEN imageExtra
       ELSE IF cardExtra.extra # NoExtra \/ cardExtra.err # NoError THEN cardExtra
       ELSE IF quoteExtra.extra # NoExtra \/ quoteExtra.err # NoError THEN quoteExtra
       ELSE videoExtra

\* the nil *Tweet extractTweet returns with an error
NoTweet == [ID |-> NilTweet, Timestamp |-> 0, Extra |-> NoExtra]

\* FeedPage.extractTweet: the Tweet (its text left out), or an error.
\* Timestamp 0 is the zero time.Time
extractTweet(sel) ==
    IF sel.item_id = NoAttr THEN [tweet |-> NoTweet, err |-> "APICompatError"]
    ELSE LET parsed == ParseUint(sel.item_id)
             unixTime == IF Len(sel.time) = 1 THEN ParseInt(sel.time[1])
                         ELSE [ok |-> TRUE, value |-> 0]
             extra == extractTweetExtra(sel)
         IN IF ~parsed.ok THEN [tweet |-> NoTweet, err |-> "APICompatError"]
            ELSE IF ~unixTime.ok THEN [tweet |-> NoTweet, err |-> "APICompatError"]
            ELSE IF sel.text # 1 THEN [tweet |-> NoTweet, err |-> "APICompatError"]
            ELSE IF extra.err # NoError THEN [tweet |-> NoTweet, err |-> extra.err]
            ELSE [tweet |-> [ID |-> parsed.value, Timestamp |-> unixTime.value,
                             Extra |-> extra.extra],
                  err |-> NoError]

\* the callback returning true for a failing container too: Each, not
\* EachWithBreak
extractEach_SkipsFailing(containers) ==
    LET extracted(c) == extractTweet(c).err = NoError
        kept == SelectSeq(containers, extracted)
    IN [k \in 1..Len(kept) |-> extractTweet(kept[k]).tweet]

\* FeedPage.extractTweets: EachWithBreak stops at the first failing container
RECURSIVE extractEach(_)
extractEach(containers) ==
    IF containers = <<>> THEN <<>>
    ELSE LET r == extractTweet(Head(containers))
         IN IF r.err = NoError THEN <<r.tweet>> \o extractEach(Tail(containers))
            ELSE <<>>

extractTweets(html) == [tweets |-> extractEach(html.items), err |-> NoError]

\* FeedPage.GetTweets
GetTweets(json) ==
    LET html == lookupString(json, "items_html")
    IN IF html.err # NoError THEN [tweets |-> <<>>, err |-> html.err]
       ELSE extractTweets(html.value)

\* the fallback reading the first item container
extractMinPosition_First(json) ==
    LET pageHTML == lookupString(json, "items_html")
    IN IF pageHTML.err # NoError THEN [value |-> "", err |-> pageHTML.err]
       ELSE LET tweetSel == pageHTML.value.items
            IN IF Len(tweetSel) > 0
               THEN IF tweetSel[1].item_id # NoAttr
                    THEN [value |-> tweetSel[1].item_id, err |-> NoError]
                    ELSE [value |-> "", err |-> "NoDataItemId"]
               ELSE [value |-> "", err |-> NoError]

\* FeedPage.extractMinPosition
extractMinPosition(json) ==
    LET pageHTML == lookupString(json, "items_html")
    IN IF pageHTML.err # NoError THEN [value |-> "", err |-> pageHTML.err]
       ELSE LET tweetSel == pageHTML.value.items
            IN IF Len(tweetSel) > 0
               THEN IF tweetSel[Len(tweetSel)].item_id # NoAttr
                    THEN [value |-> tweetSel[Len(tweetSel)].item_id, err |-> NoError]
                    ELSE [value |-> "", err |-> "NoDataItemId"]
               ELSE [value |-> "", err |-> NoError]

\* GetMinPosition without the test for an explicit null
GetMinPosition_NullIsError(json) ==
    LET pos == lookupString(json, "min_position")
    IN IF pos.err # NoError
       THEN IF json.min_position.kind = "absent" THEN extractMinPosition(json)
            ELSE [value |-> "", err |-> pos.err]
       ELSE [value |-> pos.value.str, err |-> NoError]

\* FeedPage.GetMinPosition
GetMinPosition(json) ==
    LET pos == lookupString(json, "min_position")
    IN IF pos.err # NoError
       THEN IF json.min_position.kind = "null" THEN [value |-> "", err |-> NoError]
            ELSE IF json.min_position.kind = "absent" THEN extractMinPosition(json)
            ELSE [value |-> "", err |-> pos.err]
       ELSE [value |-> pos.value.str, err |-> NoError]

\* the ids of a list of tweets
RECURSIVE TweetIds(_)
TweetIds(tweets) ==
    IF tweets = <<>> THEN <<>> ELSE <<Head(tweets).ID>> \o TweetIds(Tail(tweets))

\* NewFeedPage: the page is immutable, so it is held as what its two reader
\* methods return; the iterator reads nothing of a tweet but its ID, so the
\* tweets are held by ID
NewFeedPage(json) ==
    [tweets |-> [tweets |-> TweetIds(GetTweets(json).tweets), err |-> GetTweets(json).err],
     minPosition |-> GetMinPosition(json)]

NilPage == [tweets |-> [tweets |-> <<>>, err |-> "nil page"],
            minPosition |-> [value |-> "", err |-> "nil page"]]

Pages == {NewFeedPage(json) : json \in Payloads}

\* Stage A's page, err variables before the first RetrievePage
NilPageIter == [page |-> NilPage, err |-> NoError]

\* what one RetrievePage call can return: (page, nil) or (nil, err)
RetrieveResults ==
    {[page |-> p, err |-> NoError] : p \in Pages} \cup {[page |-> NilPage, err |-> "URLError"]}

\* ------------------------------------------------------------------ cursor
\* NewGenericFeedCursor(username, type, resumeAt...): the resume tokens tried
ResumeTokens == {"", IdText[1]}

\* the query parameters GenericFeedCursor.RetrievePage puts in its request;
\* a parameter is the list of its values
RequestParams(anchor) ==
    [include_available_features |-> <<"1">>,
     include_entities |-> <<"1">>,
     max_position |-> IF anchor # "" THEN <<anchor>> ELSE <<>>,
     reset_error_state |-> <<"false">>]

\* the query parameters SearchFeedCursor.RetrievePage puts in its request
SearchRequestParams(anchor) ==
    [vertical |-> <<"default">>,
     q |-> <<"query">>,
     include_available_features |-> <<"1">>,
     include_entities |-> <<"1">>,
     max_position |-> IF anchor # "" THEN <<anchor>> ELSE <<>>,
     reset_error_state |-> <<"false">>]

\* SearchFeedCursor.Seek
SearchSeek(anchor, position) ==
    IF position = "" THEN [ok |-> FALSE, anchor |-> anchor]
    ELSE [ok |-> TRUE, anchor |-> position]

\* Seek that reports success without moving the cursor
Seek_NoAdvance(anchor, position) ==
    IF position = "" THEN [ok |-> FALSE, anchor |-> anchor]
    ELSE [ok |-> TRUE, anchor |-> anchor]

\* Seek without the empty-token check
Seek_AcceptsEmpty(anchor, position) == [ok |-> TRUE, anchor |-> position]

\* GenericFeedCursor.Seek / SearchFeedCursor.Seek
Seek(anchor, position) ==
    IF position = "" THEN [ok |-> FALSE, anchor |-> anchor]
    ELSE [ok |-> TRUE, anchor |-> position]

\* ------------------------------------------------------------------- state
VARIABLES
    onlyOnePage,      \* FeedIter's singlePage switch
    nextPageAnchor,   \* t.cursor position
    seenTweets,       \* t.seenTweets
    pageChan,         \* buffered contents of pageChan
    pageChanClosed,
    pageOutClosed,    \* pageOut is only ever closed
    tweetChan,        \* buffered contents of tweetChan
    tweetChanClosed,
    pcA,              \* Stage A: "retrieve", "send", "send2", "return", "done"
    pageA,            \* Stage A: the (page, err) pair in hand
    pcB,              \* Stage B: "range", "loop", "sendErr", "return", "closePageOut", "done"
    tweetsB,          \* Stage B: tweets of the page in hand
    idxB,             \* Stage B: index of the tweet in hand
    errB,             \* Stage B: the error to emit
    consumer,         \* "reading", "stopped" (left the loop early), "closed"
    received,         \* results the consumer has read
    resumeAt,         \* history: the position the cursor was created with
    requests,         \* history: parameters of every RetrievePage request
    fetched,          \* history: what every RetrievePage call returned
    pagesB,           \* history: every pageIter Stage B received
    shutdownAt        \* history: the RetrievePage calls made when pageOut was closed

\* a FeedPage used on its own (as the tests do): the payload it was made of,
\* and the last method called on it
VARIABLES
    json,             \* FeedPage.json
    op,               \* the method called last, "none" before the first call
    arg,              \* the container it was called on (0: the whole page)
    ret               \* what it returned

\* a cursor used on its own (as the tests do)
VARIABLES
    cursor,           \* its type and its nextPageAnchor
    call              \* the last call made on it

\* one TwitterSession on which FeedIter is called more than once
VARIABLES
    sessionAnchor,    \* t.cursor position
    sessionSeen,      \* t.seenTweets
    sessionFetches,   \* history: RetrievePage calls made so far
    fatal,            \* the runtime found two goroutines in the map and ended the process
    iters             \* per FeedIter invocation: its channels and its two goroutines

\* the iterator's variables
feedIter == <<onlyOnePage, nextPageAnchor, seenTweets, pageChan, pageChanClosed, pageOutClosed,
              tweetChan, tweetChanClosed, pcA, pageA, pcB, tweetsB, idxB, errB, consumer,
              received, resumeAt, requests, fetched, pagesB, shutdownAt>>

\* the variables of a page used on its own
feedPage == <<json, op, arg, ret>>

\* the variables of a cursor used on its own
feedCursor == <<cursor, call>>

\* the variables of a session with several invocations
feedSession == <<sessionAnchor, sessionSeen, sessionFetches, fatal, iters>>

vars == <<feedIter, feedPage, feedCursor, feedSession>>

stageA == <<nextPageAnchor, pcA, pageA, requests, fetched, pageChanClosed>>
stageB == <<seenTweets, pcB, tweetsB, idxB, errB, pagesB, tweetChanClosed, pageOutClosed,
            shutdownAt>>
reader == <<consumer, received>>
fixed == <<onlyOnePage, resumeAt, feedPage, feedCursor, feedSession>>

\* no session with several invocations is in use
NoFeedSession ==
    /\ sessionAnchor = ""
    /\ sessionSeen = {}
    /\ sessionFetches = 0
    /\ fatal = FALSE
    /\ iters = <<>>

\* no call was made on the cursor
NoCall ==
    [method |-> "none", position |-> "", before |-> "", ok |-> FALSE,
     params |-> RequestParams(""), result |-> NilPageIter]

\* no cursor is in use on its own
NoFeedCursor ==
    /\ cursor = [type |-> "GenericFeedCursor", nextPageAnchor |-> ""]
    /\ call = NoCall

\* no page is in use on its own
NoFeedPage ==
    /\ json = [items_html |-> JAbsent, min_position |-> JAbsent]
    /\ op = "none"
    /\ arg = 0
    /\ ret = NoError

Init ==
    /\ onlyOnePage \in BOOLEAN
    /\ resumeAt \in ResumeTokens
    /\ nextPageAnchor = resumeAt
    /\ seenTweets = {}
    /\ pageChan = <<>>
    /\ pageChanClosed = FALSE
    /\ pageOutClosed = FALSE
    /\ tweetChan = <<>>
    /\ tweetChanClosed = FALSE
    /\ pcA = "retrieve"
    /\ pageA = NilPageIter
    /\ pcB = "range"
    /\ tweetsB = <<>>
    /\ idxB = 0
    /\ errB = NoError
    /\ consumer = "reading"
    /\ received = <<>>
    /\ requests = <<>>
    /\ fetched = <<>>
    /\ pagesB = <<>>
    /\ shutdownAt = 0
    /\ NoFeedPage
    /\ NoFeedCursor
    /\ NoFeedSession

\* ----------------------------------------------------------------- Stage A
\* page, err := t.cursor.RetrievePage()
A_RetrievePage ==
    /\ pcA = "retrieve"
    /\ Len(requests) < MaxFetch
    /\ \E result \in RetrieveResults :
          /\ pageA' = result
          /\ fetched' = Append(fetched, result)
    /\ requests' = Append(requests, RequestParams(nextPageAnchor))
    /\ pcA' = "send"
    /\ UNCHANGED <<nextPageAnchor, pageChanClosed, pageChan, tweetChan>>
    /\ UNCHANGED <<stageB, reader, fixed>>

\* Stage A fetching again after a failed RetrievePage
AfterSend_Retries(item) ==
    IF item.err # NoError
    THEN [pc |-> "retrieve", anchor |-> nextPageAnchor, hand |-> NilPageIter]
    ELSE IF onlyOnePage
    THEN [pc |-> "return", anchor |-> nextPageAnchor, hand |-> NilPageIter]
    ELSE LET minPosition == item.page.minPosition
         IN IF minPosition.err = NoError
            THEN LET sought == Seek(nextPageAnchor, minPosition.value)
                 IN IF sought.ok
                    THEN [pc |-> "retrieve", anchor |-> sought.anchor, hand |-> NilPageIter]
                    ELSE [pc |-> "return", anchor |-> sought.anchor, hand |-> NilPageIter]
            ELSE [pc |-> "send2", anchor |-> nextPageAnchor,
                  hand |-> [page |-> NilPage, err |-> minPosition.err]]

\* Stage A without the onlyOnePage test
AfterSend_IgnoresSinglePage(item) ==
    IF item.err # NoError
    THEN [pc |-> "return", anchor |-> nextPageAnchor, hand |-> NilPageIter]
    ELSE LET minPosition == item.page.minPosition
         IN IF minPosition.err = NoError
            THEN LET sought == Seek(nextPageAnchor, minPosition.value)
                 IN IF sought.ok
                    THEN [pc |-> "retrieve", anchor |-> sought.anchor, hand |-> NilPageIter]
                    ELSE [pc |-> "return", anchor |-> sought.anchor, hand |-> NilPageIter]
            ELSE [pc |-> "send2", anchor |-> nextPageAnchor,
                  hand |-> [page |-> NilPage, err |-> minPosition.err]]

\* what Stage A does once send(page, err) returned true
AfterSend(item) ==
    IF item.err # NoError \/ onlyOnePage
    THEN [pc |-> "return", anchor |-> nextPageAnchor, hand |-> NilPageIter]
    ELSE LET minPosition == item.page.minPosition
         IN IF minPosition.err = NoError
            THEN LET sought == Seek(nextPageAnchor, minPosition.value)
                 IN IF sought.ok
                    THEN [pc |-> "retrieve", anchor |-> sought.anchor, hand |-> NilPageIter]
                    ELSE [pc |-> "return", anchor |-> sought.anchor, hand |-> NilPageIter]
            ELSE [pc |-> "send2", anchor |-> nextPageAnchor,
                  hand |-> [page |-> NilPage, err |-> minPosition.err]]

\* the pageChan send going through whatever the channel already holds
A_SendPage_Unbounded ==
    /\ pcA = "send"
    /\ pageChan' = Append(pageChan, pageA)
    /\ LET next == AfterSend(pageA)
       IN /\ pcA' = next.pc
          /\ nextPageAnchor' = next.anchor
          /\ pageA' = next.hand
    /\ UNCHANGED <<requests, fetched, pageChanClosed, tweetChan>>
    /\ UNCHANGED <<stageB, reader, fixed>>

\* send(page, err), case pageChan <- pageIter{page, err}, and the code up to
\* the next RetrievePage, send or return
A_SendPage ==
    /\ pcA = "send"
    /\ Len(pageChan) < PageChanCap
    /\ pageChan' = Append(pageChan, pageA)
    /\ LET next == AfterSend(pageA)
       IN /\ pcA' = next.pc
          /\ nextPageAnchor' = next.anchor
          /\ pageA' = next.hand
    /\ UNCHANGED <<requests, fetched, pageChanClosed, tweetChan>>
    /\ UNCHANGED <<stageB, reader, fixed>>

\* send(page, err) without the <-pageOut case: the select never takes it
A_SendCancelled_Never ==
    /\ FALSE
    /\ UNCHANGED vars

\* the <-pageOut case closing pageChan itself, ahead of the deferred close
A_SendCancelled_Closes ==
    /\ pcA = "send"
    /\ pageOutClosed
    /\ pcA' = "return"
    /\ pageA' = NilPageIter
    /\ pageChanClosed' = TRUE
    /\ UNCHANGED <<nextPageAnchor, requests, fetched, pageChan, tweetChan>>
    /\ UNCHANGED <<stageB, reader, fixed>>

\* the loop going on to the next RetrievePage after the <-pageOut case
A_SendCancelled_Refetches ==
    /\ pcA = "send"
    /\ pageOutClosed
    /\ pcA' = "retrieve"
    /\ pageA' = NilPageIter
    /\ UNCHANGED <<nextPageAnchor, requests, fetched, pageChanClosed, pageChan, tweetChan>>
    /\ UNCHANGED <<stageB, reader, fixed>>

\* send(page, err), case <-pageOut
A_SendCancelled ==
    /\ pcA = "send"
    /\ pageOutClosed
    /\ pcA' = "return"
    /\ pageA' = NilPageIter
    /\ UNCHANGED <<nextPageAnchor, requests, fetched, pageChanClosed, pageChan, tweetChan>>
    /\ UNCHANGED <<stageB, reader, fixed>>

\* send(nil, err) after a failed GetMinPosition, either case, then return
A_SendMinPositionError ==
    /\ pcA = "send2"
    /\ \/ /\ Len(pageChan) < PageChanCap
          /\ pageChan' = Append(pageChan, pageA)
       \/ /\ pageOutClosed
          /\ pageChan' = pageChan
    /\ pcA' = "return"
    /\ pageA' = NilPageIter
    /\ UNCHANGED <<nextPageAnchor, requests, fetched, pageChanClosed, tweetChan>>
    /\ UNCHANGED <<stageB, reader, fixed>>

\* Stage A returning without the deferred close(pageChan)
A_ClosePageChan_Forgets ==
    /\ pcA = "return"
    /\ pcA' = "done"
    /\ UNCHANGED <<nextPageAnchor, pageA, requests, fetched, pageChanClosed, pageChan, tweetChan>>
    /\ UNCHANGED <<stageB, reader, fixed>>

\* defer close(pageChan)
A_ClosePageChan ==
    /\ pcA = "return"
    /\ pageChanClosed' = TRUE
    /\ pcA' = "done"
    /\ UNCHANGED <<nextPageAnchor, pageA, requests, fetched, pageChan, tweetChan>>
    /\ UNCHANGED <<stageB, reader, fixed>>

\* ----------------------------------------------------------------- Stage B
\* Stage B going on to the next page after a page without tweets
B_Handle_SkipsEmpty(result) ==
    LET got == result.page.tweets
    IN IF result.err # NoError
       THEN [pc |-> "sendErr", err |-> result.err, tweets |-> <<>>, idx |-> 0]
       ELSE IF got.err # NoError
       THEN [pc |-> "sendErr", err |-> got.err, tweets |-> <<>>, idx |-> 0]
       ELSE IF Len(got.tweets) = 0
       THEN [pc |-> "range", err |-> NoError, tweets |-> <<>>, idx |-> 0]
       ELSE [pc |-> "loop", err |-> NoError, tweets |-> got.tweets, idx |-> 1]

\* Stage B reporting a page without tweets with the nil error it holds
B_Handle_ReportsEmpty(result) ==
    LET got == result.page.tweets
    IN IF result.err # NoError
       THEN [pc |-> "sendErr", err |-> result.err, tweets |-> <<>>, idx |-> 0]
       ELSE IF got.err # NoError \/ Len(got.tweets) = 0
       THEN [pc |-> "sendErr", err |-> got.err, tweets |-> <<>>, idx |-> 0]
       ELSE [pc |-> "loop", err |-> NoError, tweets |-> got.tweets, idx |-> 1]

\* the body of the range loop up to its first tweetChan send: where Stage B
\* goes with the pageIter it received
B_Handle(result) ==
    LET got == result.page.tweets
    IN IF result.err # NoError
       THEN [pc |-> "sendErr", err |-> result.err, tweets |-> <<>>, idx |-> 0]
       ELSE IF got.err # NoError
       THEN [pc |-> "sendErr", err |-> got.err, tweets |-> <<>>, idx |-> 0]
       ELSE IF Len(got.tweets) = 0
       THEN [pc |-> "return", err |-> NoError, tweets |-> <<>>, idx |-> 0]
       ELSE [pc |-> "loop", err |-> NoError, tweets |-> got.tweets, idx |-> 1]

\* for result := range pageChan: one pageIter is received
B_ReceivePage ==
    /\ pcB = "range"
    /\ pageChan # <<>>
    /\ LET next == B_Handle(Head(pageChan))
       IN /\ pcB' = next.pc
          /\ errB' = next.err
          /\ tweetsB' = next.tweets
          /\ idxB' = next.idx
    /\ pagesB' = Append(pagesB, Head(pageChan))
    /\ pageChan' = Tail(pageChan)
    /\ UNCHANGED <<seenTweets, tweetChanClosed, pageOutClosed, shutdownAt, tweetChan>>
    /\ UNCHANGED <<stageA, reader, fixed>>

\* range pageChan ends: the channel is closed and drained
B_RangeEnds ==
    /\ pcB = "range"
    /\ pageChan = <<>>
    /\ pageChanClosed
    /\ pcB' = "return"
    /\ UNCHANGED <<seenTweets, tweetsB, idxB, errB, pagesB, tweetChanClosed, pageOutClosed, shutdownAt>>
    /\ UNCHANGED <<pageChan, tweetChan>>
    /\ UNCHANGED <<stageA, reader, fixed>>

\* Stage B going back to range pageChan after it sent an error
B_SendError_Continues ==
    /\ pcB = "sendErr"
    /\ Len(tweetChan) < TweetChanCap
    /\ tweetChan' = Append(tweetChan, [Tweet |-> NilTweet, Error |-> errB])
    /\ pcB' = "range"
    /\ UNCHANGED <<seenTweets, tweetsB, idxB, errB, pagesB, tweetChanClosed, pageOutClosed, shutdownAt>>
    /\ UNCHANGED pageChan
    /\ UNCHANGED <<stageA, reader, fixed>>

\* tweetChan <- FeedIterResult{nil, err}; return
B_SendError ==
    /\ pcB = "sendErr"
    /\ Len(tweetChan) < TweetChanCap
    /\ tweetChan' = Append(tweetChan, [Tweet |-> NilTweet, Error |-> errB])
    /\ pcB' = "return"
    /\ UNCHANGED <<seenTweets, tweetsB, idxB, errB, pagesB, tweetChanClosed, pageOutClosed, shutdownAt>>
    /\ UNCHANGED pageChan
    /\ UNCHANGED <<stageA, reader, fixed>>

\* the lookup never finding the id
SeenAlready_Never(seen, id) == FALSE

\* _, seenAlready := t.seenTweets[tweet.ID]
SeenAlready(seen, id) == id \in seen

\* the loop stepping over every second tweet
B_NextTweet_Skips ==
    IF idxB + 1 < Len(tweetsB)
    THEN /\ idxB' = idxB + 2
         /\ UNCHANGED <<tweetsB, pcB>>
    ELSE /\ idxB' = 0
         /\ tweetsB' = <<>>
         /\ pcB' = "range"

\* the loop moves to the next tweet, or back to range pageChan
B_NextTweet ==
    IF idxB < Len(tweetsB)
    THEN /\ idxB' = idxB + 1
         /\ UNCHANGED <<tweetsB, pcB>>
    ELSE /\ idxB' = 0
         /\ tweetsB' = <<>>
         /\ pcB' = "range"

\* Stage B moving the cursor to the tweet it emits
B_EmitTweet_MovesCursor ==
    /\ pcB = "loop"
    /\ ~SeenAlready(seenTweets, tweetsB[idxB])
    /\ Len(tweetChan) < TweetChanCap
    /\ tweetChan' = Append(tweetChan, [Tweet |-> tweetsB[idxB], Error |-> NoError])
    /\ seenTweets' = seenTweets \cup {tweetsB[idxB]}
    /\ nextPageAnchor' = IdText[tweetsB[idxB]]
    /\ B_NextTweet
    /\ UNCHANGED <<errB, pagesB, tweetChanClosed, pageOutClosed, shutdownAt, pageChan>>
    /\ UNCHANGED <<pcA, pageA, requests, fetched, pageChanClosed, reader, fixed>>

\* a tweet not seen before: tweetChan <- FeedIterResult{tweet, nil}, then
\* t.seenTweets[tweet.ID] = struct{}{}
B_EmitTweet ==
    /\ pcB = "loop"
    /\ ~SeenAlready(seenTweets, tweetsB[idxB])
    /\ Len(tweetChan) < TweetChanCap
    /\ tweetChan' = Append(tweetChan, [Tweet |-> tweetsB[idxB], Error |-> NoError])
    /\ seenTweets' = seenTweets \cup {tweetsB[idxB]}
    /\ B_NextTweet
    /\ UNCHANGED <<errB, pagesB, tweetChanClosed, pageOutClosed, shutdownAt, pageChan>>
    /\ UNCHANGED <<stageA, reader, fixed>>

\* a tweet seen before is logged and dropped
B_DuplicateTweet ==
    /\ pcB = "loop"
    /\ SeenAlready(seenTweets, tweetsB[idxB])
    /\ B_NextTweet
    /\ UNCHANGED <<seenTweets, errB, pagesB, tweetChanClosed, pageOutClosed, shutdownAt>>
    /\ UNCHANGED <<pageChan, tweetChan>>
    /\ UNCHANGED <<stageA, reader, fixed>>

\* defer close(tweetChan), the first deferred call to run
B_CloseTweetChan ==
    /\ pcB = "return"
    /\ tweetChanClosed' = TRUE
    /\ pcB' = "closePageOut"
    /\ UNCHANGED <<seenTweets, tweetsB, idxB, errB, pagesB, pageOutClosed, shutdownAt>>
    /\ UNCHANGED <<pageChan, tweetChan>>
    /\ UNCHANGED <<stageA, reader, fixed>>

\* defer close(pageOut)
B_ClosePageOut ==
    /\ pcB = "closePageOut"
    /\ pageOutClosed' = TRUE
    /\ shutdownAt' = Len(requests)
    /\ pcB' = "done"
    /\ UNCHANGED <<seenTweets, tweetsB, idxB, errB, pagesB, tweetChanClosed>>
    /\ UNCHANGED <<pageChan, tweetChan>>
    /\ UNCHANGED <<stageA, reader, fixed>>

\* ---------------------------------------------------------------- consumer
\* for result := range session.FeedIter(): one result is read
C_Receive ==
    /\ consumer = "reading"
    /\ tweetChan # <<>>
    /\ received' = Append(received, Head(tweetChan))
    /\ tweetChan' = Tail(tweetChan)
    /\ UNCHANGED <<consumer, pageChan>>
    /\ UNCHANGED <<stageA, stageB, fixed>>

\* the range loop ends: tweetChan is closed and drained
C_RangeEnds ==
    /\ consumer = "reading"
    /\ tweetChan = <<>>
    /\ tweetChanClosed
    /\ consumer' = "closed"
    /\ UNCHANGED <<received, pageChan, tweetChan>>
    /\ UNCHANGED <<stageA, stageB, fixed>>

\* the loop body breaks or returns after a result it has read
C_Break ==
    /\ consumer = "reading"
    /\ received # <<>>
    /\ consumer' = "stopped"
    /\ UNCHANGED <<received, pageChan, tweetChan>>
    /\ UNCHANGED <<stageA, stageB, fixed>>

StageA == A_RetrievePage \/ A_SendPage \/ A_SendCancelled \/ A_SendMinPositionError
              \/ A_ClosePageChan

StageB == B_ReceivePage \/ B_RangeEnds \/ B_SendError \/ B_EmitTweet \/ B_DuplicateTweet
              \/ B_CloseTweetChan \/ B_ClosePageOut

Consumer == C_Receive \/ C_RangeEnds \/ C_Break

Next == StageA \/ StageB \/ Consumer

Spec == Init /\ [][Next]_vars

\* Stage A's steps that are not the RetrievePage call: the select of its
\* hand-off, the hand-off of a GetMinPosition error, the deferred close
StageAChannelOps ==
    A_SendPage \/ A_SendCancelled \/ A_SendMinPositionError \/ A_ClosePageChan

\* The streams followed to their end start at the head of the feed: the
\* cursor made without a resume token.
FairInit == Init /\ resumeAt = ""

\* The three loops under the Go scheduler: a goroutine that can take a step
\* (it is runnable, or the channel operation it waits on can proceed) takes
\* one eventually.  Whether a RetrievePage call returns is up to the network,
\* not the scheduler, so no fairness is stated for it.  The consumer is only
\* assumed to go on reading; it stays free to leave its loop (C_Break).
FairSpec ==
    /\ FairInit
    /\ [][Next]_vars
    /\ WF_vars(StageAChannelOps)
    /\ WF_vars(StageB)
    /\ WF_vars(C_Receive \/ C_RangeEnds)

\* ------------------------------------------------- a page used on its own
\* no iterator is running
NoFeedIter ==
    /\ onlyOnePage = FALSE
    /\ resumeAt = ""
    /\ nextPageAnchor = ""
    /\ seenTweets = {}
    /\ pageChan = <<>>
    /\ pageChanClosed = FALSE
    /\ pageOutClosed = FALSE
    /\ tweetChan = <<>>
    /\ tweetChanClosed = FALSE
    /\ pcA = "retrieve"
    /\ pageA = NilPageIter
    /\ pcB = "range"
    /\ tweetsB = <<>>
    /\ idxB = 0
    /\ errB = NoError
    /\ consumer = "reading"
    /\ received = <<>>
    /\ requests = <<>>
    /\ fetched = <<>>
    /\ pagesB = <<>>
    /\ shutdownAt = 0

\* page := NewFeedPage(structuredJSON)
PageInit ==
    /\ json \in ReaderPayloads
    /\ op = "none"
    /\ arg = 0
    /\ ret = NoError
    /\ NoFeedIter
    /\ NoFeedCursor
    /\ NoFeedSession

\* the item containers of the page's markup
ItemsOf(payload) ==
    IF payload.items_html.kind = "string" THEN payload.items_html.items ELSE <<>>

\* page.GetTweets()
P_GetTweets ==
    /\ op' = "GetTweets"
    /\ arg' = 0
    /\ ret' = GetTweets(json)
    /\ UNCHANGED <<json, feedIter, feedCursor, feedSession>>

\* page.GetMinPosition()
P_GetMinPosition ==
    /\ op' = "GetMinPosition"
    /\ arg' = 0
    /\ ret' = GetMinPosition(json)
    /\ UNCHANGED <<json, feedIter, feedCursor, feedSession>>

\* page.extractTweet(sel), sel the k-th item container
P_extractTweet ==
    \E k \in 1..Len(ItemsOf(json)) :
        /\ op' = "extractTweet"
        /\ arg' = k
        /\ ret' = extractTweet(ItemsOf(json)[k])
        /\ UNCHANGED <<json, feedIter, feedCursor, feedSession>>

\* page.extractTweetExtra(sel), sel the k-th item container
P_extractTweetExtra ==
    \E k \in 1..Len(ItemsOf(json)) :
        /\ op' = "extractTweetExtra"
        /\ arg' = k
        /\ ret' = extractTweetExtra(ItemsOf(json)[k])
        /\ UNCHANGED <<json, feedIter, feedCursor, feedSession>>

PageNext == P_GetTweets \/ P_GetMinPosition \/ P_extractTweet \/ P_extractTweetExtra

PageSpec == PageInit /\ [][PageNext]_vars

\* ----------------------------------------------- a cursor used on its own
CursorTypes == {"GenericFeedCursor", "SearchFeedCursor"}

\* the tokens Seek is called with
SeekTokens == {""} \cup IdTexts

\* NewGenericFeedCursor(username, type, resumeAt...) or
\* NewSearchFeedCursor(query, resumeAt...)
CursorInit ==
    /\ cursor \in [type : CursorTypes, nextPageAnchor : ResumeTokens]
    /\ call = NoCall
    /\ NoFeedIter
    /\ NoFeedPage
    /\ NoFeedSession

\* cursor.Seek(position)
K_Seek ==
    \E position \in SeekTokens :
        LET sought == IF cursor.type = "GenericFeedCursor"
                      THEN Seek(cursor.nextPageAnchor, position)
                      ELSE SearchSeek(cursor.nextPageAnchor, position)
        IN /\ cursor' = [cursor EXCEPT !.nextPageAnchor = sought.anchor]
           /\ call' = [method |-> "Seek", position |-> position,
                       before |-> cursor.nextPageAnchor, ok |-> sought.ok,
                       params |-> RequestParams(""), result |-> NilPageIter]
           /\ UNCHANGED <<feedIter, feedPage, feedSession>>

\* RetrievePage moving the cursor to the position the page names
K_RetrievePage_Advances ==
    \E result \in RetrieveResults :
        /\ call' = [method |-> "RetrievePage", position |-> "",
                    before |-> cursor.nextPageAnchor, ok |-> result.err = NoError,
                    params |-> IF cursor.type = "GenericFeedCursor"
                               THEN RequestParams(cursor.nextPageAnchor)
                               ELSE SearchRequestParams(cursor.nextPageAnchor),
                    result |-> result]
        /\ cursor' = IF result.err = NoError /\ result.page.minPosition.err = NoError
                     THEN [cursor EXCEPT !.nextPageAnchor = result.page.minPosition.value]
                     ELSE cursor
        /\ UNCHANGED <<feedIter, feedPage, feedSession>>

\* cursor.RetrievePage()
K_RetrievePage ==
    \E result \in RetrieveResults :
        /\ call' = [method |-> "RetrievePage", position |-> "",
                    before |-> cursor.nextPageAnchor, ok |-> result.err = NoError,
                    params |-> IF cursor.type = "GenericFeedCursor"
                               THEN RequestParams(cursor.nextPageAnchor)
                               ELSE SearchRequestParams(cursor.nextPageAnchor),
                    result |-> result]
        /\ UNCHANGED cursor
        /\ UNCHANGED <<feedIter, feedPage, feedSession>>

CursorNext == K_Seek \/ K_RetrievePage

CursorSpec == CursorInit /\ [][CursorNext]_vars

\* ------------------------------- one session, several FeedIter invocations
\* what FeedIter sets up: the three channels, onlyOnePage and the two
\* goroutines at their first statement.  Histories of the invocation: sent,
\* the results sent on its tweetChan; requested, the cursor position of each
\* of its RetrievePage calls; anchorAtCall, the cursor position when FeedIter
\* was called; closedBefore, the earlier invocations whose tweetChan was
\* closed by then
NewIter(single) ==
    [onlyOnePage |-> single, pcA |-> "retrieve", pageA |-> NilPageIter, pageChan |-> <<>>,
     pageChanClosed |-> FALSE, pageOutClosed |-> FALSE, pcB |-> "range", tweetsB |-> <<>>,
     idxB |-> 0, errB |-> NoError, tweetChan |-> <<>>, tweetChanClosed |-> FALSE,
     consumer |-> "reading", sent |-> <<>>, requested |-> <<>>, anchorAtCall |-> "",
     closedBefore |-> {}]

\* session := NewTwitterSession(cursor), the cursor made without a resume
\* token
SessionInit ==
    /\ sessionAnchor = ""
    /\ sessionSeen = {}
    /\ sessionFetches = 0
    /\ fatal = FALSE
    /\ iters = <<>>
    /\ NoFeedIter
    /\ NoFeedPage
    /\ NoFeedCursor

\* the invocations whose goroutines can run
Running == IF fatal THEN {} ELSE 1..Len(iters)

others == <<feedIter, feedPage, feedCursor>>

\* session.FeedIter(singlePage...)
S_FeedIter ==
    /\ ~fatal
    /\ Len(iters) < MaxCalls
    /\ \E single \in BOOLEAN :
          iters' = Append(iters,
                          [NewIter(single) EXCEPT
                              !.anchorAtCall = sessionAnchor,
                              !.closedBefore = {j \in 1..Len(iters) : iters[j].tweetChanClosed}])
    /\ UNCHANGED <<sessionAnchor, sessionSeen, sessionFetches, fatal, others>>

\* Stage A of invocation i: page, err := t.cursor.RetrievePage()
SA_RetrievePage ==
    \E i \in Running :
        /\ iters[i].pcA = "retrieve"
        /\ sessionFetches < MaxSessionFetch
        /\ \E result \in RetrieveResults :
              iters' = [iters EXCEPT ![i].pageA = result, ![i].pcA = "send",
                                       ![i].requested = Append(@, sessionAnchor)]
        /\ sessionFetches' = sessionFetches + 1
        /\ UNCHANGED <<sessionAnchor, sessionSeen, fatal, others>>

\* Stage A of a session going on to GetMinPosition and Seek in single-page
\* mode too
AfterSendIn_IgnoresSinglePage(item, single, anchor) ==
    IF item.err # NoError
    THEN [pc |-> "return", anchor |-> anchor, hand |-> NilPageIter]
    ELSE LET minPosition == item.page.minPosition
         IN IF minPosition.err = NoError
            THEN LET sought == Seek(anchor, minPosition.value)
                 IN IF sought.ok
                    THEN [pc |-> IF single THEN "return" ELSE "retrieve",
                          anchor |-> sought.anchor, hand |-> NilPageIter]
                    ELSE [pc |-> "return", anchor |-> sought.anchor, hand |-> NilPageIter]
            ELSE [pc |-> "send2", anchor |-> anchor,
                  hand |-> [page |-> NilPage, err |-> minPosition.err]]

\* what Stage A does once send(page, err) returned true
AfterSendIn(item, single, anchor) ==
    IF item.err # NoError \/ single
    THEN [pc |-> "return", anchor |-> anchor, hand |-> NilPageIter]
    ELSE LET minPosition == item.page.minPosition
         IN IF minPosition.err = NoError
            THEN LET sought == Seek(anchor, minPosition.value)
                 IN IF sought.ok
                    THEN [pc |-> "retrieve", anchor |-> sought.anchor, hand |-> NilPageIter]
                    ELSE [pc |-> "return", anchor |-> sought.anchor, hand |-> NilPageIter]
            ELSE [pc |-> "send2", anchor |-> anchor,
                  hand |-> [page |-> NilPage, err |-> minPosition.err]]

\* Stage A of invocation i: send(page, err), case pageChan <- pageIter{page,
\* err}, and the code up to the next RetrievePage, send or return
SA_SendPage ==
    \E i \in Running :
        /\ iters[i].pcA = "send"
        /\ Len(iters[i].pageChan) < PageChanCap
        /\ LET next == AfterSendIn(iters[i].pageA, iters[i].onlyOnePage, sessionAnchor)
           IN /\ iters' = [iters EXCEPT ![i].pageChan = Append(@, iters[i].pageA),
                                        ![i].pcA = next.pc,
                                        ![i].pageA = next.hand]
              /\ sessionAnchor' = next.anchor
        /\ UNCHANGED <<sessionSeen, sessionFetches, fatal, others>>

\* Stage A of invocation i: send(page, err), case <-pageOut
SA_SendCancelled ==
    \E i \in Running :
        /\ iters[i].pcA = "send"
        /\ iters[i].pageOutClosed
        /\ iters' = [iters EXCEPT ![i].pcA = "return", ![i].pageA = NilPageIter]
        /\ UNCHANGED <<sessionAnchor, sessionSeen, sessionFetches, fatal, others>>

\* Stage A of invocation i: send(nil, err) after a failed GetMinPosition,
\* either case, then return
SA_SendMinPositionError ==
    \E i \in Running :
        /\ iters[i].pcA = "send2"
        /\ \/ /\ Len(iters[i].pageChan) < PageChanCap
              /\ iters' = [iters EXCEPT ![i].pageChan = Append(@, iters[i].pageA),
                                        ![i].pcA = "return",
                                        ![i].pageA = NilPageIter]
           \/ /\ iters[i].pageOutClosed
              /\ iters' = [iters EXCEPT ![i].pcA = "return", ![i].pageA = NilPageIter]
        /\ UNCHANGED <<sessionAnchor, sessionSeen, sessionFetches, fatal, others>>

\* Stage A of invocation i: defer close(pageChan)
SA_ClosePageChan ==
    \E i \in Running :
        /\ iters[i].pcA = "return"
        /\ iters' = [iters EXCEPT ![i].pcA = "done", ![i].pageChanClosed = TRUE]
        /\ UNCHANGED <<sessionAnchor, sessionSeen, sessionFetches, fatal, others>>

\* Stage B of invocation i: for result := range pageChan receives a pageIter
SB_ReceivePage ==
    \E i \in Running :
        /\ iters[i].pcB = "range"
        /\ iters[i].pageChan # <<>>
        /\ LET next == B_Handle(Head(iters[i].pageChan))
           IN iters' = [iters EXCEPT ![i].pcB = next.pc,
                                     ![i].errB = next.err,
                                     ![i].tweetsB = next.tweets,
                                     ![i].idxB = next.idx,
                                     ![i].pageChan = Tail(@)]
        /\ UNCHANGED <<sessionAnchor, sessionSeen, sessionFetches, fatal, others>>

\* Stage B of invocation i: range pageChan ends
SB_RangeEnds ==
    \E i \in Running :
        /\ iters[i].pcB = "range"
        /\ iters[i].pageChan = <<>>
        /\ iters[i].pageChanClosed
        /\ iters' = [iters EXCEPT ![i].pcB = "return"]
        /\ UNCHANGED <<sessionAnchor, sessionSeen, sessionFetches, fatal, others>>

\* Stage B of invocation i: tweetChan <- FeedIterResult{nil, err}; return
SB_SendError ==
    \E i \in Running :
        /\ iters[i].pcB = "sendErr"
        /\ Len(iters[i].tweetChan) < TweetChanCap
        /\ LET result == [Tweet |-> NilTweet, Error |-> iters[i].errB]
           IN iters' = [iters EXCEPT ![i].tweetChan = Append(@, result),
                                     ![i].sent = Append(@, result),
                                     ![i].pcB = "return"]
        /\ UNCHANGED <<sessionAnchor, sessionSeen, sessionFetches, fatal, others>>

\* the iter record once the loop moved to the next tweet, or back to range
NextTweetIn(it) ==
    IF it.idxB < Len(it.tweetsB)
    THEN [it EXCEPT !.idxB = @ + 1, !.pcB = "loop"]
    ELSE [it EXCEPT !.idxB = 0, !.tweetsB = <<>>, !.pcB = "range"]

\* Stage B of invocation i: _, seenAlready := t.seenTweets[tweet.ID]; a tweet
\* seen before is logged and dropped
SB_Lookup ==
    \E i \in Running :
        /\ iters[i].pcB = "loop"
        /\ iters' = [iters EXCEPT ![i] =
                         IF SeenAlready(sessionSeen, iters[i].tweetsB[iters[i].idxB])
                         THEN NextTweetIn(@)
                         ELSE [@ EXCEPT !.pcB = "sendTweet"]]
        /\ UNCHANGED <<sessionAnchor, sessionSeen, sessionFetches, fatal, others>>

\* Stage B of invocation i: tweetChan <- FeedIterResult{tweet, nil}
SB_SendTweet ==
    \E i \in Running :
        /\ iters[i].pcB = "sendTweet"
        /\ Len(iters[i].tweetChan) < TweetChanCap
        /\ LET result == [Tweet |-> iters[i].tweetsB[iters[i].idxB], Error |-> NoError]
           IN iters' = [iters EXCEPT ![i].tweetChan = Append(@, result),
                                     ![i].sent = Append(@, result),
                                     ![i].pcB = "mark"]
        /\ UNCHANGED <<sessionAnchor, sessionSeen, sessionFetches, fatal, others>>

\* Stage B of invocation i: t.seenTweets[tweet.ID] = struct{}{}
SB_Mark ==
    \E i \in Running :
        /\ iters[i].pcB = "mark"
        /\ sessionSeen' = sessionSeen \cup {iters[i].tweetsB[iters[i].idxB]}
        /\ iters' = [iters EXCEPT ![i] = NextTweetIn(@)]
        /\ UNCHANGED <<sessionAnchor, sessionFetches, fatal, others>>

\* Two Stage B goroutines are in t.seenTweets at once, one of them writing:
\* the map is not synchronised, and the runtime may end the process with
\* "fatal error: concurrent map read and map write" (or "map writes")
S_ConcurrentMapAccess ==
    /\ \E i, j \in Running :
          /\ i # j
          /\ iters[i].pcB = "mark"
          /\ iters[j].pcB \in {"loop", "mark"}
    /\ fatal' = TRUE
    /\ UNCHANGED <<sessionAnchor, sessionSeen, sessionFetches, iters, others>>

\* Stage B of invocation i: defer close(tweetChan)
SB_CloseTweetChan ==
    \E i \in Running :
        /\ iters[i].pcB = "return"
        /\ iters' = [iters EXCEPT ![i].pcB = "closePageOut", ![i].tweetChanClosed = TRUE]
        /\ UNCHANGED <<sessionAnchor, sessionSeen, sessionFetches, fatal, others>>

\* Stage B of invocation i: defer close(pageOut)
SB_ClosePageOut ==
    \E i \in Running :
        /\ iters[i].pcB = "closePageOut"
        /\ iters' = [iters EXCEPT ![i].pcB = "done", ![i].pageOutClosed = TRUE]
        /\ UNCHANGED <<sessionAnchor, sessionSeen, sessionFetches, fatal, others>>

\* the reader of invocation i reads one result
SC_Receive ==
    \E i \in Running :
        /\ iters[i].consumer = "reading"
        /\ iters[i].tweetChan # <<>>
        /\ iters' = [iters EXCEPT ![i].tweetChan = Tail(@)]
        /\ UNCHANGED <<sessionAnchor, sessionSeen, sessionFetches, fatal, others>>

\* the reader of invocation i finds tweetChan closed and drained
SC_RangeEnds ==
    \E i \in Running :
        /\ iters[i].consumer = "reading"
        /\ iters[i].tweetChan = <<>>
        /\ iters[i].tweetChanClosed
        /\ iters' = [iters EXCEPT ![i].consumer = "closed"]
        /\ UNCHANGED <<sessionAnchor, sessionSeen, sessionFetches, fatal, others>>

SessionNext ==
    \/ S_FeedIter
    \/ SA_RetrievePage \/ SA_SendPage \/ SA_SendCancelled \/ SA_SendMinPositionError
    \/ SA_ClosePageChan
    \/ SB_ReceivePage \/ SB_RangeEnds \/ SB_SendError \/ SB_Lookup \/ SB_SendTweet \/ SB_Mark
    \/ S_ConcurrentMapAccess
    \/ SB_CloseTweetChan \/ SB_ClosePageOut
    \/ SC_Receive \/ SC_RangeEnds

SessionSpec == SessionInit /\ [][SessionNext]_vars

\* ------------------------------------------------------- derived histories
\* every result sent on tweetChan so far, in send order
Sent == received \o tweetChan

RECURSIVE SuccessIds(_)
SuccessIds(results) ==
    IF results = <<>> THEN <<>>
    ELSE IF Head(results).Error = NoError
         THEN <<Head(results).Tweet>> \o SuccessIds(Tail(results))
         ELSE SuccessIds(Tail(results))

RECURSIVE ErrorsOf(_)
ErrorsOf(results) ==
    IF results = <<>> THEN <<>>
    ELSE IF Head(results).Error # NoError
         THEN <<Head(results).Error>> \o ErrorsOf(Tail(results))
         ELSE ErrorsOf(Tail(results))

\* the records a pageIter stands for: none for an error or a failed GetTweets
PageTweets(item) ==
    IF item.err # NoError \/ item.page.tweets.err # NoError THEN <<>>
    ELSE item.page.tweets.tweets

RECURSIVE Flatten(_)
Flatten(items) ==
    IF items = <<>> THEN <<>> ELSE PageTweets(Head(items)) \o Flatten(Tail(items))

\* ids in order of first occurrence
RECURSIVE FirstSights(_, _)
FirstSights(ids, before) ==
    IF ids = <<>> THEN <<>>
    ELSE IF Head(ids) \in before THEN FirstSights(Tail(ids), before)
         ELSE <<Head(ids)>> \o FirstSights(Tail(ids), before \cup {Head(ids)})

Expected(items) == FirstSights(Flatten(items), {})

IsPrefix(s, t) == Len(s) <= Len(t) /\ s = SubSeq(t, 1, Len(s))

Range(s) == {s[i] : i \in 1..Len(s)}

\* a page whose GetTweets gives at least one record
NonEmptyPage(item) ==
    item.err = NoError /\ item.page.tweets.err = NoError /\ Len(item.page.tweets.tweets) > 0

\* ------------------------------------------------------------------ claims
\* C1: within one stream, for every tweet id at most one success result
\* carrying that id is ever sent to the output channel, also when the id is
\* on two pages or twice on one page.
C1_AtMostOncePerId ==
    \A i, j \in 1..Len(Sent) :
        (Sent[i].Error = NoError /\ Sent[j].Error = NoError /\ Sent[i].Tweet = Sent[j].Tweet)
            => i = j

\* Stage B is through two pages that share an id, the later one carrying it twice
C1_Witness ==
    /\ pcB = "range"
    /\ \E i, j \in 1..Len(pagesB) : \E id \in Ids :
          /\ i < j
          /\ id \in Range(PageTweets(pagesB[i]))
          /\ \E a, b \in 1..Len(PageTweets(pagesB[j])) :
                a < b /\ PageTweets(pagesB[j])[a] = id /\ PageTweets(pagesB[j])[b] = id
    /\ Len(SuccessIds(received)) >= 1

\* C2: the success results are the records of the pages Stage B received, pages
\* in fetch order and records in document order, with only the ids seen before
\* removed; nothing is reordered and no first-sight record is dropped.
C2_FetchAndDocumentOrder ==
    /\ \A k \in 1..Len(pagesB) :
          pagesB[k].err = NoError => (k <= Len(fetched) /\ pagesB[k] = fetched[k])
    /\ pcB # "loop" => SuccessIds(Sent) = Expected(pagesB)
    /\ pcB = "loop" =>
          SuccessIds(Sent) =
              FirstSights(Flatten(SubSeq(pagesB, 1, Len(pagesB) - 1))
                              \o SubSeq(tweetsB, 1, idxB - 1), {})
    /\ consumer = "closed" => SuccessIds(received) = Expected(pagesB)

\* the consumer read a stream of two pages to its end, a repeated id removed
C2_Witness ==
    /\ consumer = "closed"
    /\ Len(pagesB) >= 2
    /\ NonEmptyPage(pagesB[1]) /\ NonEmptyPage(pagesB[2])
    /\ Len(SuccessIds(received)) >= 2
    /\ Len(Flatten(pagesB)) > Len(Expected(pagesB))

\* C3: a stream carries at most one error result and the error is its last
\* result: once it is sent Stage B sends nothing more and only closes.
C3_ErrorIsLast ==
    /\ Len(ErrorsOf(Sent)) <= 1
    /\ \A i \in 1..Len(Sent) :
          Sent[i].Error # NoError =>
              /\ i = Len(Sent)
              /\ pcB \in {"return", "closePageOut", "done"}
    /\ pcB \in {"closePageOut", "done"} => tweetChanClosed

\* the consumer read records, then the error, then saw the channel closed,
\* while Stage A had handed over something more
C3_Witness ==
    /\ consumer = "closed"
    /\ Len(received) >= 2
    /\ received[Len(received)].Error # NoError
    /\ Len(pageChan) = 1

\* the stream of a consumer that reads to the end when the n-th fetch fails
C4_Results(n) ==
    [k \in 1..Len(Expected(SubSeq(fetched, 1, n - 1))) |->
        [Tweet |-> Expected(SubSeq(fetched, 1, n - 1))[k], Error |-> NoError]]
        \o <<[Tweet |-> NilTweet, Error |-> fetched[n].err]>>

\* C4: when the n-th RetrievePage fails and the earlier pages were non-empty,
\* there is no further RetrievePage call and a consumer reading to the end gets
\* the deduplicated records of pages 1..n-1, then that one error, then closure.
C4_FetchError ==
    \A n \in 1..Len(fetched) :
        (fetched[n].err # NoError /\ \A k \in 1..(n - 1) : NonEmptyPage(fetched[k]))
            => /\ Len(fetched) = n
               /\ pcA \in {"send", "return", "done"}
               /\ consumer = "reading" => IsPrefix(received, C4_Results(n))
               /\ consumer = "closed" => received = C4_Results(n)

\* the third RetrievePage failed and the consumer read records, the error and
\* the closure
C4_Witness ==
    /\ consumer = "closed"
    /\ Len(fetched) = 3
    /\ fetched[3].err # NoError
    /\ NonEmptyPage(fetched[1]) /\ NonEmptyPage(fetched[2])
    /\ Len(received) >= 3

\* a page whose GetTweets gives no record and no error
ZeroRecordPage(item) ==
    item.err = NoError /\ item.page.tweets.err = NoError /\ Len(item.page.tweets.tweets) = 0

\* the last pageIter Stage B received carries a failure: a fetch error, a
\* failed GetTweets, or a GetMinPosition that Stage A called and that failed
EndedByFailure ==
    /\ Len(pagesB) > 0
    /\ LET last == pagesB[Len(pagesB)]
       IN \/ last.err # NoError
          \/ last.page.tweets.err # NoError
          \/ ~onlyOnePage /\ last.page.minPosition.err # NoError

\* C5: whenever the stream ends because of a fetch error or an extraction
\* error on a fetched page, exactly one error result reaches a consumer that
\* reads until closure, whatever the failing page holds, zero records included.
C5_ExactlyOneError ==
    (consumer = "closed" /\ EndedByFailure) => Len(ErrorsOf(received)) = 1

\* C6: when Stage B receives a page with zero records it receives and sends
\* nothing more and closes the output with no error result in the stream, also
\* when that page names a next position and an older page has unseen records.
C6_EmptyPageEndsStream ==
    /\ \A k \in 1..Len(pagesB) :
          ZeroRecordPage(pagesB[k]) =>
              /\ k = Len(pagesB)
              /\ pcB \in {"return", "closePageOut", "done"}
              /\ ErrorsOf(Sent) = <<>>
              /\ SuccessIds(Sent) = Expected(SubSeq(pagesB, 1, k - 1))
    /\ pcB \in {"closePageOut", "done"} => tweetChanClosed

\* the stream closed on a zero-record page that named a next position, after
\* Stage A had fetched a further page with a record nobody has seen
C6_Witness ==
    /\ consumer = "closed"
    /\ Len(pagesB) >= 2
    /\ ZeroRecordPage(pagesB[Len(pagesB)])
    /\ pagesB[Len(pagesB)].page.minPosition.value # ""
    /\ Len(fetched) > Len(pagesB)
    /\ NonEmptyPage(fetched[Len(fetched)])
    /\ \E id \in Range(PageTweets(fetched[Len(fetched)])) : id \notin seenTweets

\* C7: in single-page mode Stage A makes exactly one RetrievePage call
\* whatever the page's next position is, every result of the stream comes from
\* that page, and the stream then closes.
C7_SinglePage ==
    onlyOnePage =>
        /\ Len(requests) <= 1
        /\ pcA \in {"return", "done"} => Len(requests) = 1
        /\ Len(pagesB) <= 1
        /\ \A i \in 1..Len(Sent) :
              IF Sent[i].Error = NoError
              THEN Sent[i].Tweet \in Range(PageTweets(fetched[1]))
              ELSE Sent[i].Error \in {fetched[1].err, fetched[1].page.tweets.err}
        /\ consumer = "closed" => SuccessIds(received) = Expected(<<fetched[1]>>)
        /\ pcB \in {"closePageOut", "done"} => tweetChanClosed

\* a single-page stream over a page that names a next position ran to its end
C7_Witness ==
    /\ onlyOnePage
    /\ consumer = "closed"
    /\ pcA = "done"
    /\ pcB = "done"
    /\ fetched[1].err = NoError
    /\ fetched[1].page.minPosition.value # ""
    /\ Len(received) >= 2

\* C8: once the consumer stopped reading while the feed has further non-empty
\* pages, no RetrievePage call is issued (and both stages terminate): no step
\* taken after the stop is a RetrievePage call that returns a non-empty page.
C8_NoFetchAfterStop ==
    [][consumer = "stopped" =>
          ~(Len(fetched') = Len(fetched) + 1 /\ NonEmptyPage(fetched'[Len(fetched')]))]_vars

HandedOver == Len(pagesB) + Len(pageChan)

\* page k is non-empty, was handed over, and Seek got its empty next position
SeekRefused(k) ==
    /\ ~onlyOnePage
    /\ NonEmptyPage(fetched[k])
    /\ fetched[k].page.minPosition = [value |-> "", err |-> NoError]
    /\ HandedOver >= k

\* C10 as stated: when a fetched non-empty page has an empty next position,
\* Stage A fetches no more, every first-sight record of that page reaches a
\* consumer that keeps reading, and the stream closes with no error result.
C10_LastPageDelivered ==
    \A k \in 1..Len(fetched) :
        SeekRefused(k) =>
            /\ Len(fetched) = k
            /\ pcA \in {"return", "done"}
            /\ consumer = "closed" =>
                  /\ Range(PageTweets(fetched[k])) \subseteq Range(SuccessIds(received))
                  /\ ErrorsOf(received) = <<>>

\* C10, amended: the same, provided every earlier page of the stream gave at
\* least one record (so that Stage B is still running when the page arrives).
C10_LastPageDeliveredAfterNonEmpty ==
    \A k \in 1..Len(fetched) :
        (SeekRefused(k) /\ \A j \in 1..(k - 1) : NonEmptyPage(fetched[j])) =>
            /\ Len(fetched) = k
            /\ pcA \in {"return", "done"}
            /\ consumer = "closed" =>
                  /\ Range(PageTweets(fetched[k])) \subseteq Range(SuccessIds(received))
                  /\ ErrorsOf(received) = <<>>

\* the second page had an empty next position and a record of its own, and
\* the consumer read the stream to its end
C10_Witness ==
    /\ consumer = "closed"
    /\ Len(fetched) = 2
    /\ NonEmptyPage(fetched[1])
    /\ SeekRefused(2)
    /\ \E id \in Range(PageTweets(fetched[2])) : id \notin Range(PageTweets(fetched[1]))

\* C11: every result ever sent on the output channel has exactly one of its
\* two fields set: a tweet with a nil error, or a nil tweet with an error.
C11_ExactlyOneField ==
    \A i \in 1..Len(Sent) : (Sent[i].Tweet # NilTweet) # (Sent[i].Error # NoError)

\* a stream that sent a tweet and then an error
C11_Witness ==
    /\ \E i \in 1..Len(Sent) : Sent[i].Tweet # NilTweet /\ Sent[i].Error = NoError
    /\ \E i \in 1..Len(Sent) : Sent[i].Tweet = NilTweet /\ Sent[i].Error # NoError

\* Every RetrievePage call returns: Stage A is never left waiting in one.
\* The model serves MaxFetch pages, so the call after the last of them does
\* not return: a feed that has not ended within the bound.
CallsReturn == []<>(pcA # "retrieve")

\* C18: whenever Stage B has terminated (pageOut is closed), Stage A
\* eventually terminates, provided every RetrievePage call returns; a page it
\* still holds is dropped or left in pageChan.
C18_StageAFollowsStageB == CallsReturn => (pageOutClosed ~> pcA = "done")

\* Stage B has terminated, and Stage A terminated after dropping a page it
\* had fetched: the page is neither with Stage B nor in pageChan
C18_Witness == pageOutClosed /\ pcA = "done" /\ Len(fetched) > HandedOver

\* C19: when the consumer reads until the channel is closed, every
\* RetrievePage call returns and the feed ends, then eventually tweetChan is
\* closed and read to its end and both goroutines have terminated.
C19_Terminates ==
    CallsReturn =>
        <>(\/ consumer = "stopped"
           \/ /\ consumer = "closed"
              /\ tweetChanClosed
              /\ pcA = "done"
              /\ pcB = "done")

\* a stream of two pages read to its end, everything shut down
C19_Witness ==
    /\ consumer = "closed"
    /\ tweetChanClosed
    /\ pcA = "done"
    /\ pcB = "done"
    /\ Len(pagesB) = 2
    /\ Len(received) >= 2

\* the RetrievePage results Stage B has received so far (the error of a
\* failed GetMinPosition, which Stage A sends last, is not one)
PagesReceived == IF Len(pagesB) < Len(fetched) THEN Len(pagesB) ELSE Len(fetched)

C14_FourOutcomes ==
    op = "GetMinPosition" =>
        LET member == json.min_position
        IN /\ member.kind \in {"string", "null", "other", "absent"}
           /\ member.kind = "string" => ret = [value |-> member.str, err |-> NoError]
           /\ member.kind = "null" => ret = [value |-> "", err |-> NoError]
           /\ member.kind = "other" => ret.err # NoError
           /\ member.kind = "absent" => ret = extractMinPosition(json)

\* GetMinPosition was called on a page whose min_position is null
C14_Witness == op = "GetMinPosition" /\ json.min_position.kind = "null" /\ ret.err = NoError

\* the fallback applies: min_position is absent and items_html is markup
FallbackCase ==
    /\ op = "GetMinPosition"
    /\ json.min_position.kind = "absent"
    /\ json.items_html.kind = "string"

\* the last item container of the page's markup
LastItem == ItemsOf(json)[Len(ItemsOf(json))]

\* C15 as stated: with min_position absent and the markup parsable, the
\* position is the data-item-id of the last item container, and it is "" with
\* no error when no such identifier is found.
C15_FallbackPosition ==
    FallbackCase =>
        IF ItemsOf(json) # <<>> /\ LastItem.item_id # NoAttr
        THEN ret = [value |-> LastItem.item_id, err |-> NoError]
        ELSE ret = [value |-> "", err |-> NoError]

\* C15 amended: the position is the data-item-id of the last item container
\* (also when GetTweets stops before it); it is "" with no error when the
\* markup has no item container; when the last item container has no
\* data-item-id attribute GetMinPosition returns an error.
C15_FallbackPositionOrError ==
    FallbackCase =>
        IF ItemsOf(json) = <<>> THEN ret = [value |-> "", err |-> NoError]
        ELSE IF LastItem.item_id # NoAttr
        THEN ret = [value |-> LastItem.item_id, err |-> NoError]
        ELSE ret.value = "" /\ ret.err # NoError

\* the fallback on a page of two containers whose first one fails
\* extraction: the position is the id of the second
C15_Witness ==
    /\ FallbackCase
    /\ Len(ItemsOf(json)) = 2
    /\ GetTweets(json).tweets = <<>>
    /\ LastItem.item_id \in IdTexts
    /\ LastItem.item_id # ItemsOf(json)[1].item_id
    /\ ret.value = LastItem.item_id

\* C16: the embedded content of a container goes by image > card > quote >
\* playable media, first match wins: with an image node the result is the
\* Gallery of all image URLs in document order whatever card and quote nodes
\* there are; without image nodes a single card wins over any quote nodes;
\* a playable-media node alone, or no matching node, gives nil and no error.
C16_Precedence ==
    op = "extractTweetExtra" =>
        LET sel == ItemsOf(json)[arg]
        IN /\ Len(sel.image) > 0 => ret = [extra |-> Gallery(sel.image), err |-> NoError]
           /\ Len(sel.image) = 0 /\ Len(sel.card) = 1
                  => ret = [extra |-> Card(sel.card[1]), err |-> NoError]
           /\ Len(sel.image) = 0 /\ Len(sel.card) = 0 /\ Len(sel.quote) = 1
                  /\ sel.quote[1] # NoAttr
                  => ret = [extra |-> Quote(sel.quote[1]), err |-> NoError]
           /\ Len(sel.image) = 0 /\ Len(sel.card) = 0 /\ Len(sel.quote) = 0
                  => ret = [extra |-> NoExtra, err |-> NoError]

\* a container with two images, two cards and two quote links gave a Gallery
C16_Witness ==
    /\ op = "extractTweetExtra"
    /\ Len(ItemsOf(json)[arg].image) = 2
    /\ ItemsOf(json)[arg].image[1] # ItemsOf(json)[arg].image[2]
    /\ Len(ItemsOf(json)[arg].card) = 2
    /\ Len(ItemsOf(json)[arg].quote) = 2
    /\ ret.extra.variant = "Gallery"

\* the k-th item container of the page fails extraction
Fails(k) == extractTweet(ItemsOf(json)[k]).err # NoError

\* the index of the first failing container, Len + 1 when none fails
FirstFailing ==
    IF \E k \in 1..Len(ItemsOf(json)) : Fails(k)
    THEN CHOOSE k \in 1..Len(ItemsOf(json)) : Fails(k) /\ \A i \in 1..(k - 1) : ~Fails(i)
    ELSE Len(ItemsOf(json)) + 1

\* C17: GetTweets on markup with containers c1..cn returns a nil error and
\* exactly the tweets of c1..c(j-1), cj being the first container that fails
\* extraction (all n when none fails): nothing after cj, nothing at all when
\* c1 fails.
C17_LongestPrefix ==
    op = "GetTweets" /\ json.items_html.kind = "string" =>
        /\ ret.err = NoError
        /\ Len(ret.tweets) = FirstFailing - 1
        /\ \A k \in 1..Len(ret.tweets) : ret.tweets[k] = extractTweet(ItemsOf(json)[k]).tweet

\* the first container fails and the second would not: no tweet is returned
C17_Witness ==
    /\ op = "GetTweets"
    /\ Len(ItemsOf(json)) = 2
    /\ Fails(1)
    /\ ~Fails(2)
    /\ ret.tweets = <<>>

\* C13: for both cursor types, Seek("") returns false and leaves the position
\* as it was, Seek of a non-empty token sets the position to that token and
\* returns true, and RetrievePage leaves the position as it was.
C13_SeekAndRetrievePage ==
    /\ call.method = "Seek" /\ call.position = ""
           => ~call.ok /\ cursor.nextPageAnchor = call.before
    /\ call.method = "Seek" /\ call.position # ""
           => call.ok /\ cursor.nextPageAnchor = call.position
    /\ call.method = "RetrievePage" => cursor.nextPageAnchor = call.before

\* a search cursor was moved from one position to another
C13_Witness ==
    /\ cursor.type = "SearchFeedCursor"
    /\ call.method = "Seek"
    /\ call.before # ""
    /\ call.position # ""
    /\ call.position # call.before
    /\ cursor.nextPageAnchor = call.position

\* the places (invocation, index) where id was sent as a success result
SuccessesOf(id) ==
    {<<i, k>> \in (1..MaxCalls) \X (1..(MaxId + 1)) :
        /\ i <= Len(iters)
        /\ k <= Len(iters[i].sent)
        /\ iters[i].sent[k].Error = NoError
        /\ iters[i].sent[k].Tweet = id}

\* C12: on one session, over all its FeedIter invocations, one after another
\* or overlapping, no tweet id is sent as a success result more than once.
C12_AtMostOncePerSession == \A id \in Ids : Cardinality(SuccessesOf(id)) <= 1

\* C21: within one invocation the cursor position is touched by Stage A
\* alone and the seen set by Stage B alone: a step that changes
\* nextPageAnchor is a Stage A step and no Stage B step (every Stage B step
\* leaves it as it is), a step that changes seenTweets is a Stage B step and
\* no Stage A step.
C21_SingleWriter ==
    [][/\ nextPageAnchor' # nextPageAnchor => StageA /\ ~StageB
       /\ seenTweets' # seenTweets => StageB /\ ~StageA]_vars

\* Stage A has moved the cursor and Stage B has stored an id
C21_Witness == nextPageAnchor # resumeAt /\ seenTweets # {}

\* a position token is the id of the oldest item of a page (ids grow with
\* time): new lies strictly before old in the feed; "" is the start of the
\* feed, before which nothing lies
StrictlyOlder(new, old) ==
    /\ ParseUint(new).ok
    /\ old # "" => ParseUint(old).ok /\ ParseUint(new).value < ParseUint(old).value

\* C22: every Seek of the pipeline that succeeds (Stage A goes from its send
\* on to the next RetrievePage) sets a position strictly older than the one
\* it replaces, whatever token the feed returned.
C22_NeverSeeksForward ==
    [][(pcA = "send" /\ pcA' = "retrieve")
          => StrictlyOlder(nextPageAnchor', nextPageAnchor)]_vars

\* C23: extractTweet on a container with a good id, one text node and no
\* failing embedded content: no timestamp node gives a tweet with the zero
\* timestamp, one node gives the parsed timestamp, two or more nodes give an
\* error and no tweet.
C23_TimestampByNodeCount ==
    op = "extractTweet" =>
        LET sel == ItemsOf(json)[arg]
        IN (/\ ParseUint(sel.item_id).ok
            /\ sel.text = 1
            /\ extractTweetExtra(sel).err = NoError)
           => /\ Len(sel.time) = 0 => ret.err = NoError /\ ret.tweet.Timestamp = 0
              /\ (Len(sel.time) = 1 /\ ParseInt(sel.time[1]).ok)
                    => ret.err = NoError /\ ret.tweet.Timestamp = ParseInt(sel.time[1]).value
              /\ Len(sel.time) >= 2 => ret.err = "APICompatError" /\ ret.tweet = NoTweet

\* C24: no channel is misused.  pageChan is closed by Stage A alone, once,
\* and nothing is sent on it afterwards (the send after a failed
\* GetMinPosition included); tweetChan and pageOut are closed by Stage B
\* alone, once each, and nothing is sent on tweetChan afterwards.
C24_NoChannelMisuse ==
    [][/\ A_ClosePageChan => ~pageChanClosed
       /\ B_CloseTweetChan => ~tweetChanClosed
       /\ B_ClosePageOut => ~pageOutClosed
       /\ pageChanClosed' # pageChanClosed => A_ClosePageChan
       /\ tweetChanClosed' # tweetChanClosed => B_CloseTweetChan
       /\ pageOutClosed' # pageOutClosed => B_ClosePageOut
       /\ Len(pageChan') > Len(pageChan) => StageA /\ ~pageChanClosed /\ ~pageChanClosed'
       /\ Len(tweetChan') > Len(tweetChan) => StageB /\ ~tweetChanClosed /\ ~tweetChanClosed'
       /\ pageChanClosed => pcA = "done"
       /\ tweetChanClosed => pcB \in {"closePageOut", "done"}
       /\ pageOutClosed => pcB = "done"]_vars

\* everything is closed after Stage A sent the error of a failed
\* GetMinPosition as one pageIter more than it fetched
C24_Witness ==
    /\ pageChanClosed
    /\ tweetChanClosed
    /\ pageOutClosed
    /\ HandedOver > Len(fetched)

\* the RetrievePage calls made since Stage B closed pageOut
CallsSinceShutdown == Len(requests) - shutdownAt

\* C25 as stated: once Stage B has closed pageOut, Stage A makes at most one
\* more RetrievePage call, Stage B receives no further pageIter and nothing
\* further is sent on tweetChan.
C25_OneCallAfterShutdown ==
    [][pageOutClosed =>
          /\ Len(requests') <= shutdownAt + 1
          /\ pagesB' = pagesB
          /\ Sent' = Sent]_vars

\* C25, amended: once Stage B has closed pageOut, Stage A makes at most one
\* more RetrievePage call than pages went into pageChan's buffer, so at most
\* PageChanCap + 1 in all; Stage B receives no further pageIter and nothing
\* further is sent on tweetChan.
C25_CallsAfterShutdown ==
    [][pageOutClosed =>
          /\ Len(requests') <= shutdownAt + Len(pageChan') + 1
          /\ Len(requests') <= shutdownAt + PageChanCap + 1
          /\ pagesB' = pagesB
          /\ Sent' = Sent]_vars

\* Stage A made two calls after the shutdown: the page of the first went into
\* the buffer, the page of the second was dropped
C25_Witness ==
    /\ pageOutClosed
    /\ CallsSinceShutdown = PageChanCap + 1
    /\ pcA = "done"
    /\ Len(pageChan) = PageChanCap

\* the ids invocation i sent as success results
SentIds(i) ==
    {iters[i].sent[k].Tweet : k \in {n \in 1..Len(iters[i].sent) : iters[i].sent[n].Error = NoError}}

\* every invocation made on the session so far is in single-page mode
AllSinglePage == \A i \in 1..Len(iters) : iters[i].onlyOnePage

\* C26: a single-page invocation never moves the cursor: while the session
\* has single-page invocations only, the position is the one it had when
\* FeedIter was called and every request is made at it; a single-page
\* invocation made after an earlier one's stream closed requests the same
\* position as the earlier one and sends no id the earlier one sent.
C26_SinglePageLeavesCursor ==
    AllSinglePage =>
        /\ \A i \in 1..Len(iters) :
              /\ sessionAnchor = iters[i].anchorAtCall
              /\ \A k \in 1..Len(iters[i].requested) :
                    iters[i].requested[k] = iters[i].anchorAtCall
              /\ Len(iters[i].requested) <= 1
        /\ \A j \in 1..Len(iters) : \A i \in iters[j].closedBefore :
              /\ (iters[i].requested # <<>> /\ iters[j].requested # <<>>)
                    => iters[j].requested = iters[i].requested
              /\ SentIds(i) \cap SentIds(j) = {}

\* the second single-page invocation, made after the first one's stream
\* closed, fetched the same position and is about to drop an id the first
\* one sent
C26_Witness ==
    /\ Len(iters) = 2
    /\ AllSinglePage
    /\ 1 \in iters[2].closedBefore
    /\ iters[2].requested = iters[1].requested
    /\ iters[2].pcB = "loop"
    /\ iters[2].tweetsB[iters[2].idxB] \in SentIds(1)

====
